---- MODULE Spec2Model ----
(***************************************************************************)
(* A model of the metro route planner: src/src/lib.rs (Station, Trip,      *)
(* Metro, get_next, get_time) and src/src/main.rs (main).                  *)
(*                                                                         *)
(* Station ids are the stations' indices in Metro::stations (the code      *)
(* indexes self.stations by id throughout), so a network is a function     *)
(* from 0..NumStations-1 to station records plus a sequence of trips.      *)
(* Rust vectors are modelled as TLA+ sequences; a Rust index k is the      *)
(* sequence index k+1.                                                     *)
(***************************************************************************)
EXTENDS Integers, Sequences, FiniteSets, TLC

\* ------------------------------------------------------------------ bounds

\* Number of stations of the networks explored.
NumStations == 5
\* Largest trip time (seconds) of the networks explored.
MaxTime == 10
\* Width in bits of the model's usize (the code's is 64; only the wrap of
\* usize::MAX + t depends on it, and that is t - 1 at every width).
UsizeBits == 16

\* ------------------------------------------------------- program constants

\* let stop_time = 30;
stop_time == 30
\* get_time: seconds per minute
SecondsPerMinute == 60

RECURSIVE Pow2(_)
Pow2(n) == IF n = 0 THEN 1 ELSE 2 * Pow2(n - 1)

\* usize::MAX
USIZE_MAX == Pow2(UsizeBits) - 1

Ids == 0 .. NumStations - 1

VARIABLES
    stations,         \* Metro::stations: id -> [line, state, name]
    trips,            \* Metro::trips: sequence of [first, second, time]
    overflow_checks,  \* build profile: TRUE panics on overflow, FALSE wraps
    departures,       \* main: ids returned by get_station (departure)
    arrivals,         \* main: ids returned by get_station (arrival)
    results,          \* main: Vec<Results>
    di, ai,           \* main: positions of the two nested for loops (1-based)
    best,             \* main: index (0-based) of the selected result
    pc,               \* control point
    start, end,       \* dijkstra: arguments
    distance, prevs,  \* dijkstra: id -> usize
    unvisited,        \* dijkstra: Vec<usize>
    visited,          \* dijkstra: counter
    search_current,   \* dijkstra: current, the station get_next returned
    time,             \* dijkstra: (minutes, seconds)
    path,             \* get_changes: Vec of station ids
    current,          \* get_changes: cursor of the backward walk
    changes,          \* get_changes: Vec of station ids
    directions,       \* get_changes: Vec<usize>
    i,                \* get_changes: index of the for loop
    t_prev, t_curr    \* get_terminus: prev, curr

vars == <<stations, trips, overflow_checks, departures, arrivals, results,
          di, ai, best, pc, start, end, distance, prevs, unvisited, visited,
          search_current, time, path, current, changes, directions, i, t_prev, t_curr>>

netVars == <<stations, trips, overflow_checks, departures, arrivals>>
mainVars == <<results, di, ai, best>>
searchVars == <<start, end, distance, prevs, unvisited, visited,
               search_current, time>>
changesVars == <<path, current, changes, directions, i>>
terminusVars == <<t_prev, t_curr>>

\* ------------------------------------------------------------ pure helpers

\* Vec indexing with a Rust (0-based) index.
At(v, k) == v[k + 1]

RECURSIVE Reverse(_)
Reverse(s) == IF s = <<>> THEN <<>> ELSE Append(Reverse(Tail(s)), Head(s))

\* Metro::get_station: the stations whose name equals the input, in registry
\* order (the prompt loop repeats until the match list is non-empty).
RECURSIVE MatchFrom(_, _, _)
MatchFrom(st, input, k) ==
    IF k >= NumStations THEN <<>>
    ELSE IF st[k].name = input THEN <<k>> \o MatchFrom(st, input, k + 1)
    ELSE MatchFrom(st, input, k + 1)

get_station(st, input) == MatchFrom(st, input, 0)

\* Metro::get_paths_to_neighboors
get_paths_to_neighboors(tr, cur) ==
    SelectSeq(tr, LAMBDA p : (cur = p.first) \/ (cur = p.second))

\* get_time
get_time(t) ==
    LET minutes == t \div SecondsPerMinute
    IN  <<minutes, t - (minutes * SecondsPerMinute)>>

\* Rust's `<` on (usize, usize): lexicographic.
TupleLess(a, b) == a[1] < b[1] \/ (a[1] = b[1] /\ a[2] < b[2])

\* ------------------------------------------------------------- the search

\* get_next, first loop: linear scan for the smallest distance.
RECURSIVE ScanMin(_, _, _, _)
ScanMin(dist, unv, min, next) ==
    IF unv = <<>> THEN next
    ELSE IF dist[Head(unv)] < min
         THEN ScanMin(dist, Tail(unv), dist[Head(unv)], Head(unv))
         ELSE ScanMin(dist, Tail(unv), min, next)

\* get_next, second loop: remove the first occurrence of next, if any.
RECURSIVE RemoveFirst(_, _)
RemoveFirst(unv, x) ==
    IF unv = <<>> THEN <<>>
    ELSE IF Head(unv) = x THEN Tail(unv)
    ELSE <<Head(unv)>> \o RemoveFirst(Tail(unv), x)

\* get_next: the id returned.
get_next(dist, unv) == ScanMin(dist, unv, USIZE_MAX, 0)

\* One relaxation test of dijkstra's inner loop, from cur into neighbor.
\* s is [distance, prevs, fault]; fault records an overflow panic.
RelaxInto(s, cur, neighbor, t, checks) ==
    LET sum == s.distance[cur] + t
        wsum == sum % (USIZE_MAX + 1)
        stored == wsum + stop_time
    IN  IF sum > USIZE_MAX /\ checks THEN [s EXCEPT !.fault = TRUE]
        ELSE IF wsum < s.distance[neighbor]
        THEN IF stored > USIZE_MAX /\ checks THEN [s EXCEPT !.fault = TRUE]
             ELSE [s EXCEPT !.distance[neighbor] = stored % (USIZE_MAX + 1),
                            !.prevs[neighbor] = cur]
        ELSE s

\* The body of `for path in paths` in dijkstra.
RelaxTrip(s, cur, p, checks) ==
    IF s.fault THEN s
    ELSE IF cur = p.first THEN RelaxInto(s, cur, p.second, p.time, checks)
    ELSE IF cur = p.second THEN RelaxInto(s, cur, p.first, p.time, checks)
    ELSE s

RECURSIVE RelaxAll(_, _, _, _)
RelaxAll(s, cur, paths, checks) ==
    IF paths = <<>> THEN s
    ELSE RelaxAll(RelaxTrip(s, cur, Head(paths), checks), cur, Tail(paths), checks)

\* One iteration of `while visited < self.stations.len()`.
\* q is [distance, prevs, unvisited, visited, fault, selected].
SearchStep(tr, q, checks) ==
    LET cur == get_next(q.distance, q.unvisited)
        r == RelaxAll([distance |-> q.distance, prevs |-> q.prevs, fault |-> FALSE],
                      cur, get_paths_to_neighboors(tr, cur), checks)
    IN  [distance |-> r.distance, prevs |-> r.prevs,
         unvisited |-> RemoveFirst(q.unvisited, cur),
         visited |-> q.visited + 1, fault |-> r.fault, selected |-> cur]

\* dijkstra, lines 320-329 (vec![0; n] has capacity n, so the loop of line
\* 326 fills unvisited with 0 .. n-1).
SearchInit(s) ==
    [distance |-> [k \in Ids |-> IF k = s THEN 0 ELSE USIZE_MAX],
     prevs |-> [k \in Ids |-> USIZE_MAX],
     unvisited |-> [k \in 1 .. NumStations |-> k - 1],
     visited |-> 0, fault |-> FALSE, selected |-> 0]

\* The whole search loop of dijkstra.
RECURSIVE SearchLoop(_, _, _)
SearchLoop(tr, q, checks) ==
    IF q.fault \/ q.visited >= NumStations THEN q
    ELSE SearchLoop(tr, SearchStep(tr, q, checks), checks)

\* ------------------------------------------------------------ get_terminus

\* TerminusTrip without the `prev != ...` tests: the walk may step back.
TerminusTripStepsBack(st, w, trip) ==
    IF w.curr = trip.first
    THEN IF st[w.curr].line = st[trip.second].line
         THEN [prev |-> w.curr, curr |-> trip.second]
         ELSE w
    ELSE IF w.curr = trip.second
    THEN IF st[w.curr].line = st[trip.first].line
         THEN [prev |-> w.curr, curr |-> trip.first]
         ELSE w
    ELSE w

\* The body of `for trip in trips` in get_terminus; w is [prev, curr].
TerminusTrip(st, w, trip) ==
    IF w.curr = trip.first
    THEN IF st[w.curr].line = st[trip.second].line /\ w.prev # trip.second
         THEN [prev |-> w.curr, curr |-> trip.second]
         ELSE w
    ELSE IF w.curr = trip.second
    THEN IF st[w.curr].line = st[trip.first].line /\ w.prev # trip.first
         THEN [prev |-> w.curr, curr |-> trip.first]
         ELSE w
    ELSE w

RECURSIVE TerminusFor(_, _, _)
TerminusFor(st, w, ts) ==
    IF ts = <<>> THEN w
    ELSE TerminusFor(st, TerminusTrip(st, w, Head(ts)), Tail(ts))

\* One iteration of `while self.stations[curr].state == false`.
TerminusPass(st, tr, w) == TerminusFor(st, w, get_paths_to_neighboors(tr, w.curr))

\* ------------------------------------------------------------------- main

\* BestFrom with `<=` for `<`: the last of the smallest results is kept.
RECURSIVE BestFromLastTie(_, _, _)
BestFromLastTie(rs, k, b) ==
    IF k >= Len(rs) THEN b
    ELSE IF ~TupleLess(At(rs, b).time, At(rs, k).time)
         THEN BestFromLastTie(rs, k + 1, k)
         ELSE BestFromLastTie(rs, k + 1, b)

\* main, lines 21-26: the index of the selected result.
RECURSIVE BestFrom(_, _, _)
BestFrom(rs, k, b) ==
    IF k >= Len(rs) THEN b
    ELSE IF TupleLess(At(rs, k).time, At(rs, b).time)
         THEN BestFrom(rs, k + 1, k)
         ELSE BestFrom(rs, k + 1, b)

SelectBest(rs) == BestFrom(rs, 1, 0)

\* Metro::print_travel: whether every directions[...] it reads exists.
PrintIndexesOk(r) ==
    /\ Len(r.directions) > 0
    /\ \A k \in 0 .. Len(r.changes) - 1 : k + 1 < Len(r.directions)

\* ------------------------------------------------------------------ inputs

\* Trip times of the networks explored.
Times == {0, MaxTime}

\* The station pairs (first, second) a network's trips are drawn from, in
\* registry order; a network holds any subset of them, each with any time.
Pool == << <<0, 2>>, <<1, 0>>, <<1, 2>>, <<3, 2>>, <<3, 4>> >>

Absent == 0 - 1

RECURSIVE BuildTrips(_, _)
BuildTrips(f, k) ==
    IF k > Len(Pool) THEN <<>>
    ELSE IF f[k] = Absent THEN BuildTrips(f, k + 1)
    ELSE <<[first |-> Pool[k][1], second |-> Pool[k][2], time |-> f[k]]>>
         \o BuildTrips(f, k + 1)

\* The trip registries explored (what Metro::new builds from the E records).
TripRegistries == {BuildTrips(f, 1) : f \in [1 .. Len(Pool) -> Times \cup {Absent}]}

\* Station registries: stations with id < split are on line "1", the others on
\* line "2"; the terminus flag is set on every station or on the odd ids only;
\* nm gives the names.
StationRegistry(split, allTermini, nm) ==
    [k \in Ids |-> [line |-> IF k < split THEN "1" ELSE "2",
                    state |-> allTermini \/ k % 2 = 1,
                    name |-> nm[k]]]

\* Names all distinct: a name resolves to exactly one id.
DistinctNames == [k \in Ids |-> k]
\* Two names: the ids that are multiples of 3 share name 0, the others name 1.
SharedNames == [k \in Ids |-> IF k % 3 = 0 THEN 0 ELSE 1]

InitControl ==
    /\ results = <<>>
    /\ di = 1
    /\ ai = 1
    /\ best = 0
    /\ pc = "main_loop"
    /\ start = 0
    /\ end = 0
    /\ distance = [k \in Ids |-> USIZE_MAX]
    /\ prevs = [k \in Ids |-> USIZE_MAX]
    /\ unvisited = <<>>
    /\ visited = 0
    /\ search_current = 0
    /\ time = <<0, 0>>
    /\ path = <<>>
    /\ current = 0
    /\ changes = <<>>
    /\ directions = <<>>
    /\ i = 0
    /\ t_prev = 0
    /\ t_curr = 0

\* The state when main reaches line 13: a loaded network and the two lists of
\* matching stations, here for names that each resolve to one station.
Init ==
    /\ \E split \in {NumStations - 1, NumStations}, allTermini \in BOOLEAN :
           stations = StationRegistry(split, allTermini, DistinctNames)
    /\ trips \in TripRegistries
    /\ overflow_checks \in BOOLEAN
    /\ \E dn \in Ids, an \in Ids :
           /\ departures = get_station(stations, dn)
           /\ arrivals = get_station(stations, an)
    /\ InitControl

\* ----------------------------------------------------------------- actions

\* main lines 15-17 and dijkstra lines 320-329: the next (departure, arrival)
\* pair is taken and the search state is built.
CallDijkstra ==
    /\ pc = "main_loop"
    /\ di <= Len(departures)
    /\ LET q == SearchInit(departures[di])
       IN  /\ start' = departures[di]
           /\ end' = arrivals[ai]
           /\ distance' = q.distance
           /\ prevs' = q.prevs
           /\ unvisited' = q.unvisited
           /\ visited' = q.visited
    /\ search_current' = 0
    /\ time' = <<0, 0>>
    /\ path' = <<>>
    /\ current' = 0
    /\ changes' = <<>>
    /\ directions' = <<>>
    /\ i' = 0
    /\ t_prev' = 0
    /\ t_curr' = 0
    /\ pc' = "search"
    /\ UNCHANGED <<netVars, mainVars>>

\* dijkstra lines 331-348: one iteration of the search loop.
SearchIter ==
    /\ pc = "search"
    /\ visited < NumStations
    /\ LET q == SearchStep(trips,
                           [distance |-> distance, prevs |-> prevs,
                            unvisited |-> unvisited, visited |-> visited,
                            fault |-> FALSE, selected |-> 0],
                           overflow_checks)
       IN  /\ distance' = q.distance
           /\ prevs' = q.prevs
           /\ unvisited' = q.unvisited
           /\ visited' = q.visited
           /\ search_current' = q.selected
           /\ pc' = IF q.fault THEN "panic_overflow" ELSE "search"
    /\ UNCHANGED <<netVars, mainVars, start, end, time, changesVars,
                   terminusVars>>

\* dijkstra line 350 and get_changes lines 282-287.
FinishSearch ==
    /\ pc = "search"
    /\ visited >= NumStations
    /\ time' = get_time(distance[end])
    /\ path' = <<end>>
    /\ changes' = <<>>
    /\ directions' = <<>>
    /\ current' = end
    /\ pc' = "walk"
    /\ UNCHANGED <<netVars, mainVars, start, end, distance, prevs, unvisited,
                   visited, search_current, i, terminusVars>>

\* get_changes lines 288-292: one step of the backward walk;
\* self.stations[next] panics when next is no station index. A path of more
\* than NumStations entries repeats a station, so the walk is in a cycle of
\* predecessor links that never meets start: the entries pushed from then on
\* are not recorded (the vector grows without bound in the code).
WalkBack ==
    /\ pc = "walk"
    /\ current # start
    /\ LET next == prevs[current]
       IN  IF next \in Ids
           THEN /\ path' = IF Len(path) <= NumStations THEN Append(path, next)
                                                       ELSE path
                /\ current' = next
                /\ pc' = "walk"
           ELSE /\ pc' = "panic_index"
                /\ UNCHANGED <<path, current>>
    /\ UNCHANGED <<netVars, mainVars, searchVars, changes, directions, i,
                   terminusVars>>

\* get_changes lines 293-295: the path is reversed and the first terminus
\* lookup is entered with (path[0], path[1]); path[1] panics on a path of one.
StartChanges ==
    /\ pc = "walk"
    /\ current = start
    /\ path' = Reverse(path)
    /\ IF Len(path) < 2
       THEN /\ pc' = "panic_index"
            /\ UNCHANGED <<i, terminusVars>>
       ELSE /\ t_prev' = At(path', 0)
            /\ t_curr' = At(path', 1)
            /\ i' = 1
            /\ pc' = "terminus"
    /\ UNCHANGED <<netVars, mainVars, searchVars, current, changes, directions>>

\* get_terminus lines 239-259: one iteration of the while loop.
TerminusStep ==
    /\ pc = "terminus"
    /\ stations[t_curr].state = FALSE
    /\ LET w == TerminusPass(stations, trips, [prev |-> t_prev, curr |-> t_curr])
       IN  /\ t_prev' = w.prev
           /\ t_curr' = w.curr
    /\ UNCHANGED <<netVars, mainVars, searchVars, changesVars, pc>>

\* get_terminus line 261 and the directions.push of its caller.
TerminusReturn ==
    /\ pc = "terminus"
    /\ stations[t_curr].state = TRUE
    /\ directions' = Append(directions, t_curr)
    /\ pc' = "changes"
    /\ UNCHANGED <<netVars, mainVars, searchVars, path, current, changes, i,
                   terminusVars>>

\* get_changes lines 296-307: one iteration of `for i in 1..path.len()`.
ChangesIter ==
    /\ pc = "changes"
    /\ i < Len(path)
    /\ i' = i + 1
    /\ IF stations[At(path, i - 1)].line # stations[At(path, i)].line
       THEN /\ changes' = Append(changes, At(path, i))
            /\ IF i + 1 < Len(path)
               THEN /\ t_prev' = At(path, i)
                    /\ t_curr' = At(path, i + 1)
                    /\ pc' = "terminus"
               ELSE UNCHANGED <<pc, terminusVars>>
       ELSE UNCHANGED <<changes, pc, terminusVars>>
    /\ UNCHANGED <<netVars, mainVars, searchVars, path, current, directions>>

\* get_changes line 309, dijkstra line 353 and main line 17: the Results value
\* is pushed and the nested for loops advance.
Return ==
    /\ pc = "changes"
    /\ i >= Len(path)
    /\ results' = Append(results, [start |-> start, time |-> time,
                                   changes |-> changes,
                                   directions |-> directions, end |-> end])
    /\ IF ai < Len(arrivals)
       THEN /\ ai' = ai + 1
            /\ di' = di
       ELSE /\ ai' = 1
            /\ di' = di + 1
    /\ pc' = "main_loop"
    /\ UNCHANGED <<netVars, best, searchVars, changesVars, terminusVars>>

\* main lines 21-26.
Select ==
    /\ pc = "main_loop"
    /\ di > Len(departures)
    /\ best' = SelectBest(results)
    /\ pc' = "print"
    /\ UNCHANGED <<netVars, results, di, ai, searchVars, changesVars,
                   terminusVars>>

\* main line 29: print_travel(&results[best]).
PrintTravel ==
    /\ pc = "print"
    /\ pc' = IF PrintIndexesOk(At(results, best)) THEN "exit" ELSE "panic_index"
    /\ UNCHANGED <<netVars, mainVars, searchVars, changesVars, terminusVars>>

Next ==
    \/ CallDijkstra
    \/ SearchIter
    \/ FinishSearch
    \/ WalkBack
    \/ StartChanges
    \/ TerminusStep
    \/ TerminusReturn
    \/ ChangesIter
    \/ Return
    \/ Select
    \/ PrintTravel

Spec == Init /\ [][Next]_vars

\* ----------------------------------------------- dijkstra as a function

\* get_changes lines 285-293 run to the end: the forward path, "panic" when
\* self.stations[next] is out of bounds, "diverges" when the walk is caught
\* in a cycle of predecessor links.
RECURSIVE WalkFrom(_, _, _, _)
WalkFrom(pv, s, cur, acc) ==
    IF cur = s THEN [outcome |-> "ok", path |-> Reverse(acc)]
    ELSE IF pv[cur] \notin Ids THEN [outcome |-> "panic", path |-> <<>>]
    ELSE IF Len(acc) > NumStations THEN [outcome |-> "diverges", path |-> <<>>]
    ELSE WalkFrom(pv, s, pv[cur], Append(acc, pv[cur]))

\* get_terminus run for at most fuel iterations of its while loop: the terminus
\* id, or NumStations when the loop has not ended by then. The loop's state
\* is the pair (prev, curr), so NumStations * NumStations iterations without
\* an end mean it never ends.
RECURSIVE TerminusRun(_, _, _, _)
TerminusRun(st, tr, w, fuel) ==
    IF st[w.curr].state THEN w.curr
    ELSE IF fuel = 0 THEN NumStations
    ELSE TerminusRun(st, tr, TerminusPass(st, tr, w), fuel - 1)

get_terminus(st, tr, prev, curr) ==
    TerminusRun(st, tr, [prev |-> prev, curr |-> curr], NumStations * NumStations)

\* Whether dijkstra(s, e) on the trip registry tr returns a Results value:
\* the search does not panic, the backward walk reaches s, path[1] exists
\* and every get_terminus call of get_changes ends.
Returns(st, tr, s, e, checks) ==
    LET q == SearchLoop(tr, SearchInit(s), checks)
        w == WalkFrom(q.prevs, s, e, <<e>>)
        p == w.path
    IN  /\ ~q.fault
        /\ w.outcome = "ok"
        /\ Len(p) >= 2
        /\ get_terminus(st, tr, At(p, 0), At(p, 1)) \in Ids
        /\ \A k \in 1 .. Len(p) - 2 :
               st[At(p, k - 1)].line # st[At(p, k)].line
                   => get_terminus(st, tr, At(p, k), At(p, k + 1)) \in Ids

\* Results::time of dijkstra(s, e) on tr, in seconds, when it returns.
ReportedSeconds(tr, s, e, checks) ==
    LET t == get_time(SearchLoop(tr, SearchInit(s), checks).distance[e])
    IN  t[1] * SecondsPerMinute + t[2]

\* ------------------------------------------------- reference definitions

\* The stations joined to a station of S by one trip.
Step(tr, S) ==
    S \cup {k \in Ids : \E n \in 1 .. Len(tr) :
                /\ {tr[n].first, tr[n].second} = {k, tr[n].first, tr[n].second}
                /\ {tr[n].first, tr[n].second} \cap S # {}}

RECURSIVE Closure(_, _)
Closure(tr, S) == IF Step(tr, S) = S THEN S ELSE Closure(tr, Step(tr, S))

\* The stations reachable from s through trips.
Reach(tr, s) == Closure(tr, {s})

Min(S) == CHOOSE x \in S : \A y \in S : x <= y

\* Bellman-Ford: c[k] is the least sum of (time + stop_time) over the
\* paths of at most n trips from s to k, USIZE_MAX when there is none.
RECURSIVE CostWithin(_, _, _)
CostWithin(tr, s, n) ==
    IF n = 0 THEN [k \in Ids |-> IF k = s THEN 0 ELSE USIZE_MAX]
    ELSE LET c == CostWithin(tr, s, n - 1)
         IN  [k \in Ids |->
                Min({c[k]} \cup
                    {c[tr[m].first] + tr[m].time + stop_time :
                        m \in {m \in 1 .. Len(tr) :
                                 tr[m].second = k /\ c[tr[m].first] < USIZE_MAX}}
                    \cup
                    {c[tr[m].second] + tr[m].time + stop_time :
                        m \in {m \in 1 .. Len(tr) :
                                 tr[m].first = k /\ c[tr[m].second] < USIZE_MAX}})]

MinCost(tr, s, e) == CostWithin(tr, s, NumStations)[e]

Seconds(t) == t[1] * SecondsPerMinute + t[2]

\* The registries with the same trips in the same order and no smaller times.
Heavier(tr) ==
    {[n \in 1 .. Len(tr) |-> [tr[n] EXCEPT !.time = h[n]]] :
        h \in {h \in [1 .. Len(tr) -> Times] : \A n \in 1 .. Len(tr) : h[n] >= tr[n].time}}

\* The query dijkstra(start, end) has been entered.
Started == pc # "main_loop" \/ Len(results) > 0
\* The last query entered has returned its Results value.
Returned == pc \in {"main_loop", "print", "exit"} /\ Len(results) > 0
Panicked == pc \in {"panic_index", "panic_overflow"}
LastResult == results[Len(results)]

\* ------------------------------------------------------------------ claims

\* C1: for start # end with end reachable from start, the total time that
\* dijkstra(start, end) reports is the minimum over all paths from start to
\* end of the sum of (travelSeconds + 30) over the path's trips.
C1_ReportedTimeIsMinimum ==
    (Returned /\ start # end /\ end \in Reach(trips, start))
        => Seconds(LastResult.time) = MinCost(trips, start, end)

\* C2: when end is not reachable from start, dijkstra(start, end) ends in a
\* "no route" outcome: it neither panics (index out of bounds, overflow) nor
\* returns an itinerary.
C2_UnreachableIsNoRoute ==
    (Started /\ end \notin Reach(trips, start)) => ~Panicked /\ ~Returned

\* C3: the self-query dijkstra(s, s) succeeds with total time (0, 0), no
\* transfer station and no direction entry, and reads no second path station.
C3_SelfQuerySucceeds ==
    (Started /\ start = end)
        => /\ ~Panicked
           /\ Returned => /\ LastResult.time = <<0, 0>>
                          /\ LastResult.changes = <<>>
                          /\ LastResult.directions = <<>>

\* C4: for start # end with end reachable, the directions returned have
\* exactly one more entry than the changes returned, also when the line
\* changes at the last station of the path.
C4_OneMoreDirectionThanChanges ==
    (Returned /\ start # end /\ end \in Reach(trips, start))
        => Len(LastResult.directions) = Len(LastResult.changes) + 1

\* C5: weight-monotonicity: on a network with the same stations and the same
\* trips in the same order, each with a time no smaller, dijkstra(start, end)
\* reports a total time no smaller, for end reachable from start.
C5_WeightMonotone ==
    (Returned /\ end \in Reach(trips, start))
        => \A tr2 \in Heavier(trips) :
               Returns(stations, tr2, start, end, overflow_checks)
                   => ReportedSeconds(tr2, start, end, overflow_checks)
                          >= Seconds(LastResult.time)

\* C6: main computes an itinerary for every (departure, arrival) pair,
\* departures in the outer loop and arrivals in the inner one, and selects one
\* whose (minutes, seconds) is lexicographically smallest among them all, the
\* first computed when several share that smallest tuple.
LexLeq(a, b) == a[1] < b[1] \/ (a[1] = b[1] /\ a[2] <= b[2])

C6_SelectsFirstSmallest ==
    pc = "print"
        => /\ Len(results) = Len(departures) * Len(arrivals)
           /\ \A k \in 0 .. Len(results) - 1 :
                  /\ At(results, k).start = At(departures, k \div Len(arrivals))
                  /\ At(results, k).end = At(arrivals, k % Len(arrivals))
           /\ best \in 0 .. Len(results) - 1
           /\ \A k \in 0 .. Len(results) - 1 :
                  LexLeq(At(results, best).time, At(results, k).time)
           /\ \A k \in 0 .. best - 1 :
                  At(results, k).time # At(results, best).time

\* C6 witness: a selection among at least four itineraries, where the one
\* selected is not the first computed and a later one has the same time.
C6_Witness ==
    /\ pc = "print"
    /\ Len(results) >= 4
    /\ best > 0
    /\ \E k \in best + 1 .. Len(results) - 1 :
           At(results, k).time = At(results, best).time

\* C7: every query terminates: the search loop, the backward walk of
\* get_changes and every get_terminus walk end after finitely many steps.
Terminated == pc \in {"exit", "panic_index", "panic_overflow"}

C7_QueryTerminates == <>Terminated

\* The trips of curr's pass that qualify at its start: the other endpoint is on
\* curr's line and is not prev.
Other(trip, curr) == IF curr = trip.first THEN trip.second ELSE trip.first

Qualifying(st, tr, prev, curr) ==
    SelectSeq(get_paths_to_neighboors(tr, curr),
              LAMBDA trip : /\ st[Other(trip, curr)].line = st[curr].line
                            /\ Other(trip, curr) # prev)

\* C8 as stated: when several same-line trips qualify at the current station,
\* get_terminus steps to the other endpoint of the last qualifying trip in
\* registry order.
C8_LastQualifyingWins ==
    [][(/\ pc = "terminus"
        /\ ~stations[t_curr].state
        /\ Len(Qualifying(stations, trips, t_prev, t_curr)) >= 2)
         => LET Q == Qualifying(stations, trips, t_prev, t_curr)
            IN  t_curr' = Other(Q[Len(Q)], t_curr)]_vars

\* C8 as amended: when several same-line trips qualify at the current station,
\* get_terminus steps to the other endpoint of the first qualifying trip in
\* registry order (every trip joining two distinct stations).
C8_FirstQualifyingWins ==
    [][(/\ pc = "terminus"
        /\ ~stations[t_curr].state
        /\ Len(Qualifying(stations, trips, t_prev, t_curr)) >= 2)
         => LET Q == Qualifying(stations, trips, t_prev, t_curr)
            IN  /\ t_curr' = Other(Q[1], t_curr)
                /\ t_prev' = t_curr]_vars

\* C8 witness: the first terminus lookup of a query has made one step from
\* (path[0], path[1]), where two trips towards different stations qualified,
\* and stands at the other endpoint of the first of them.
C8_Witness ==
    /\ pc = "terminus"
    /\ i = 1
    /\ directions = <<>>
    /\ ~stations[At(path, 1)].state
    /\ LET Q == Qualifying(stations, trips, At(path, 0), At(path, 1))
       IN  /\ Len(Q) >= 2
           /\ Other(Q[1], At(path, 1)) # Other(Q[Len(Q)], At(path, 1))
           /\ t_prev = At(path, 1)
           /\ t_curr = Other(Q[1], At(path, 1))

Range(v) == {v[k] : k \in 1 .. Len(v)}

\* C9: at every iteration of the search loop the station selected is still
\* unvisited, has the minimum distance among the unvisited stations and the
\* lowest id among those at that minimum; so when the loop ends every station
\* has been selected once and none is left unvisited.
C9_SelectsUnvisitedMinimum ==
    /\ [][(pc = "search" /\ visited' = visited + 1)
            => /\ search_current' \in Range(unvisited)
               /\ \A u \in Range(unvisited) :
                      /\ distance[search_current'] <= distance[u]
                      /\ distance[u] = distance[search_current']
                             => search_current' <= u]_vars
    /\ [](pc = "walk" => unvisited = <<>>)

\* C10: for end reachable from start, the path that the predecessor links
\* give from end back to start repeats no station, and the reported time is
\* the sum over its consecutive stations (p, n) of the time of a trip joining
\* p and n plus 30: distance[n] = distance[p] + w + 30 all along the path.
C10_PathAccountsForTime ==
    (Returned /\ start # end /\ end \in Reach(trips, start))
        => /\ Cardinality(Range(path)) = Len(path)
           /\ distance[start] = 0
           /\ Seconds(LastResult.time) = distance[end]
           /\ \A k \in 1 .. Len(path) - 1 :
                  \E n \in 1 .. Len(trips) :
                      /\ {trips[n].first, trips[n].second} = {path[k], path[k + 1]}
                      /\ distance[path[k + 1]]
                             = distance[path[k]] + trips[n].time + stop_time

\* ------------------------------------------------------- specifications

\* The query's loops run when they can: the program is sequential and never
\* waits, so a step that is possible is taken.
\* The networks of the fair specification: line "1" up to the last station,
\* terminus flag on the odd ids, any subset of Pool with every time MaxTime.
FairInit ==
    /\ stations = StationRegistry(NumStations - 1, FALSE, DistinctNames)
    /\ trips \in {tr \in TripRegistries : \A n \in 1 .. Len(tr) : tr[n].time = MaxTime}
    /\ overflow_checks \in BOOLEAN
    /\ \E dn \in Ids, an \in Ids :
           /\ departures = get_station(stations, dn)
           /\ arrivals = get_station(stations, an)
    /\ InitControl

FairSpec == FairInit /\ [][Next]_vars /\ WF_vars(Next)

\* main with names shared by several stations: each of the two inputs
\* resolves to several ids and main computes one itinerary per pair.
MainInit ==
    /\ \E split \in {NumStations - 1, NumStations}, allTermini \in BOOLEAN :
           stations = StationRegistry(split, allTermini, SharedNames)
    /\ trips \in TripRegistries
    /\ overflow_checks \in BOOLEAN
    /\ \E dn \in {0, 1}, an \in {0, 1} :
           /\ departures = get_station(stations, dn)
           /\ arrivals = get_station(stations, an)
    /\ InitControl

MainSpec == MainInit /\ [][Next]_vars

====
